---------------------------- MODULE Spec2Model ----------------------------
(***************************************************************************)
(* Model of huffman.c: frequency counting, Huffman tree construction,      *)
(* code table generation, encoding and decoding.                           *)
(*                                                                         *)
(* Conventions                                                             *)
(*   - a C string is the sequence of its bytes before the terminator;      *)
(*     a char* that may be NULL is a record [null, s];                     *)
(*   - a character is its integer value: '0' is 48 and '1' is 49;          *)
(*   - a Node* is an index into heap (the nodes malloc returned, in        *)
(*     allocation order), 0 is the NULL pointer;                           *)
(*   - C arrays are 0-based, sequences are 1-based: nodes[k] of the code   *)
(*     is nodes[k + 1] of the model.                                       *)
(***************************************************************************)
EXTENDS Integers, Sequences, FiniteSets, TLC

(* ------------------------------ bounds -------------------------------- *)

\* every message of at most MaxLen bytes over Symbols is an input of main
MaxLen == 2

\* of the longer messages, up to MaxSortedLen bytes, one arrangement for each
\* table of frequencies is an input of main: the one with its bytes in
\* ascending order
MaxSortedLen == 6

(* ----------------------------- constants ------------------------------ *)

MAX_CHAR == 256

\* byte values the bounded input messages are made of: four ASCII letters
\* and one value above 127
Symbols == {97, 98, 99, 100, 200}

\* size_t arithmetic is modular; the width is scaled down to 16 bits so
\* that products stay inside the model checker's integers
SIZE_MOD == 2 ^ 16

\* sizeof(Node *)
SIZEOF_PTR == 8

\* the characters '0' and '1'
CHAR_0 == 48

CHAR_1 == 49

\* largest request malloc can satisfy (PTRDIFF_MAX at the scaled width)
MALLOC_MAX == (2 ^ 15) - 1

\* the message of main
MainMessage ==
  <<
    97, 97, 98, 98, 99, 99, 100, 100, 98, 98, 101, 97, 101, 98, 100,
    100, 100, 102, 102, 102, 100, 98, 102, 102, 100, 100, 97, 98, 98, 98,
    98, 98, 99, 100, 101, 102, 97, 97, 98, 98, 99, 99, 99, 99, 99,
    97, 97, 98, 98, 100, 100, 102, 102, 102, 100, 99, 101, 99, 99 >>

\* the reference bit-string main compares the encoded message with
encoded_message_ref ==
  <<
    48, 48, 49, 48, 48, 49, 49, 48, 49, 48, 49, 49, 49, 49, 49, 49, 48, 49, 48, 49, 49, 48, 49, 48, 48,
    48, 48, 48, 48, 49, 48, 48, 48, 49, 48, 48, 49, 48, 49, 48, 49, 49, 49, 48, 49, 49, 48, 49, 49, 48,
    48, 49, 49, 48, 49, 49, 48, 49, 49, 48, 48, 49, 48, 49, 48, 48, 49, 49, 48, 49, 48, 49, 48, 49, 48,
    49, 48, 49, 49, 49, 48, 49, 48, 48, 48, 49, 49, 48, 48, 48, 49, 48, 48, 49, 49, 48, 49, 48, 49, 49,
    49, 49, 49, 49, 49, 49, 49, 49, 49, 49, 49, 49, 49, 48, 48, 49, 48, 48, 49, 49, 48, 49, 48, 48, 49,
    48, 49, 49, 49, 48, 49, 49, 48, 49, 49, 48, 48, 49, 49, 49, 49, 48, 48, 48, 49, 49, 49, 49, 49, 49 >>

(* ------------------------------- state -------------------------------- *)

VARIABLES
  charSigned,        \* the build: TRUE when plain char is a signed type
  qsortStable,       \* the C library: TRUE when qsort keeps equal elements in
                     \* their order, FALSE when it may return them in any order
  pc,                \* position of main
  message,           \* the bytes of the message of main
  message_info,      \* MessageInfo: [chars, length]
  heap,              \* the Node objects allocated so far
  nodes,             \* generate_tree: the array of Node pointers
  current_nb_nodes,  \* generate_tree: number of live entries of nodes
  root,              \* the Node* generate_tree returned
  enc_input,         \* the message handed to huffman_encode
  encoded_message,   \* the char* huffman_encode returned
  enc_writes,        \* huffman_encode: every write as [idx, capacity]
  dec_input,         \* the string handed to huffman_decode
  decoded_message    \* the char* huffman_decode returned

vars == << charSigned, qsortStable, pc, message, message_info, heap, nodes,
           current_nb_nodes, root, enc_input, encoded_message, enc_writes,
           dec_input, decoded_message >>

(* ------------------------------ helpers ------------------------------- *)

NULL == 0

NullStr == [null |-> TRUE, s |-> << >>]

Str(s) == [null |-> FALSE, s |-> s]

\* all sequences over S of length 0..n
SeqsUpTo(S, n) == UNION {[1..k -> S] : k \in 0..n}

\* conversion of a value 0..255 to plain char
ToChar(b) == IF charSigned /\ b >= 128 THEN b - 256 ELSE b

\* conversion of a char value to unsigned char
ToUChar(v) == IF v < 0 THEN v + 256 ELSE v

\* message[i] read through a const char *
CharAt(m, i) == ToChar(m[i])

\* a message as main compares it with the decoded message: char by char
CharsOf(m) == [i \in 1..Len(m) |-> CharAt(m, i)]

(* ------------------------- count_frequencies -------------------------- *)

count_frequencies(m) ==
  [index \in 0..(MAX_CHAR - 1) |->
     Cardinality({i \in 1..Len(m) : ToUChar(CharAt(m, i)) = index})]

(* --------------------------- create_message --------------------------- *)

create_message(m) ==
  LET frequencies == count_frequencies(m)
      present == SelectSeq([i \in 1..MAX_CHAR |-> i - 1],
                           LAMBDA i : frequencies[i] > 0)
  IN  [chars  |-> [k \in 1..Len(present) |->
                     [c    |-> ToChar(present[k]),
                      freq |-> frequencies[present[k]],
                      code |-> NullStr]],
       length |-> Len(present)]

(* ----------------------------- nodes ---------------------------------- *)

\* the code field is left indeterminate by create_node; nothing modelled
\* reads it before _generate_huffman assigns it
create_node(c, freq) ==
  [left |-> NULL, right |-> NULL, c |-> ToUChar(c), freq |-> freq, code |-> NullStr]

\* create_parent_node taking the frequency of its left child alone: the
\* variant C8_TreeWeights has to tell from the code
create_parent_node_left_freq(h, left, right) ==
  [create_node(0, h[left].freq) EXCEPT !.left = left, !.right = right]

\* create_parent_node with its children exchanged: the variant
\* C4_MainScenario has to tell from the code
create_parent_node_swapped(h, left, right) ==
  [create_node(0, (h[left].freq + h[right].freq) % SIZE_MOD)
     EXCEPT !.left = right, !.right = left]

create_parent_node(h, left, right) ==
  [create_node(0, (h[left].freq + h[right].freq) % SIZE_MOD)
     EXCEPT !.left = left, !.right = right]

\* node_compare with the order of the frequencies inverted: the variant
\* C7_CodeLengthOrdering has to tell from the code
node_compare_descending(h, first, second) ==
  IF first = NULL /\ second = NULL THEN 0
  ELSE IF second = NULL THEN -1
  ELSE IF first = NULL THEN 1
  ELSE IF h[first].freq > h[second].freq THEN -1
  ELSE IF h[first].freq < h[second].freq THEN 1
  ELSE 0

node_compare(h, first, second) ==
  IF first = NULL /\ second = NULL THEN 0
  ELSE IF second = NULL THEN -1
  ELSE IF first = NULL THEN 1
  ELSE IF h[first].freq > h[second].freq THEN 1
  ELSE IF h[first].freq < h[second].freq THEN -1
  ELSE 0

\* qsort over the first n entries of arr: every outcome is a permutation
\* ordered by node_compare. C leaves the order of entries that compare equal
\* unspecified: a stable library keeps them in their order in arr, any other
\* library may return them in any order
sort_nodes(h, arr, n) ==
  { [k \in 1..Len(arr) |-> IF k <= n THEN arr[p[k]] ELSE arr[k]] :
      p \in { q \in Permutations(1..n) :
                /\ \A i, j \in 1..n :
                     i < j => node_compare(h, arr[q[i]], arr[q[j]]) <= 0
                /\ qsortStable =>
                     \A i, j \in 1..n :
                       (i < j /\ node_compare(h, arr[q[i]], arr[q[j]]) = 0)
                         => q[i] < q[j] } }

(* ------------------------------- Init --------------------------------- *)

Messages ==
  SeqsUpTo(Symbols, MaxLen)
    \cup {m \in SeqsUpTo(Symbols, MaxSortedLen) :
            \A i \in 1..(Len(m) - 1) : m[i] <= m[i + 1]}
    \cup {MainMessage}

Init ==
  /\ charSigned \in BOOLEAN
  /\ qsortStable \in BOOLEAN
  /\ message \in Messages
  /\ pc = "start"
  /\ message_info = [chars |-> << >>, length |-> 0]
  /\ heap = << >>
  /\ nodes = << >>
  /\ current_nb_nodes = 0
  /\ root = NULL
  /\ enc_input = << >>
  /\ encoded_message = NullStr
  /\ enc_writes = << >>
  /\ dec_input = << >>
  /\ decoded_message = NullStr

(* ------------------------- main: create_message ----------------------- *)

\* malloc(0) may return NULL, and create_message then exits with status 1
CreateMessage ==
  /\ pc = "start"
  /\ message_info' = create_message(message)
  /\ \/ pc' = "created"
     \/ /\ message_info'.length = 0
        /\ pc' = "exit_failed_allocation"
  /\ UNCHANGED << charSigned, qsortStable, message, heap, nodes, current_nb_nodes,
                  root, enc_input, encoded_message, enc_writes, dec_input,
                  decoded_message >>

(* ------------------------- main: generate_tree ------------------------ *)

\* entry of generate_tree up to the first sort_nodes
GenerateTreeLeaves ==
  /\ pc = "created"
  /\ LET max_nodes == (2 * message_info.length - 1) % SIZE_MOD
         bytes     == (max_nodes * SIZEOF_PTR) % SIZE_MOD
     IN  IF bytes > MALLOC_MAX
         THEN \* malloc returns NULL and memset writes through it
              /\ pc' = "segv"
              /\ UNCHANGED << heap, nodes, current_nb_nodes >>
         ELSE /\ heap' = [i \in 1..message_info.length |->
                            create_node(message_info.chars[i].c,
                                        message_info.chars[i].freq)]
              /\ current_nb_nodes' = message_info.length
              /\ nodes' \in sort_nodes(heap',
                              [k \in 1..max_nodes |->
                                 IF k <= message_info.length THEN k ELSE NULL],
                              message_info.length)
              /\ pc' = "tree_loop"
  /\ UNCHANGED << charSigned, qsortStable, message, message_info, root, enc_input,
                  encoded_message, enc_writes, dec_input, decoded_message >>

\* one iteration of the while loop
GenerateTreeMerge ==
  /\ pc = "tree_loop"
  /\ current_nb_nodes > 1
  /\ LET left   == nodes[1]
         right  == nodes[2]
         parent == Len(heap) + 1
     IN  /\ heap' = Append(heap, create_parent_node(heap, left, right))
         /\ nodes' \in sort_nodes(heap',
                                  [nodes EXCEPT ![1] = parent, ![2] = NULL],
                                  current_nb_nodes)
  /\ current_nb_nodes' = current_nb_nodes - 1
  /\ UNCHANGED << charSigned, qsortStable, pc, message, message_info, root,
                  enc_input, encoded_message, enc_writes, dec_input,
                  decoded_message >>

\* loop exit: root = nodes[0]
GenerateTreeReturn ==
  /\ pc = "tree_loop"
  /\ ~(current_nb_nodes > 1)
  /\ root' = nodes[1]
  /\ pc' = "tree_done"
  /\ UNCHANGED << charSigned, qsortStable, message, message_info, heap, nodes,
                  current_nb_nodes, enc_input, encoded_message, enc_writes,
                  dec_input, decoded_message >>

(* ------------------------ generate_huffman ---------------------------- *)

\* least element of a non-empty set of integers: the index a forward loop
\* with break stops at
First(S) == CHOOSE x \in S : \A y \in S : x <= y

\* _generate_huffman; the result is the table and the nodes after the call.
\* code_buffer is passed by value: a call only writes at positions >= depth,
\* and its caller rewrites position depth before it reads the buffer again
\* buf[k] = v on a C array
Store(buf, k, v) == [i \in 1..Len(buf) |-> IF i = k + 1 THEN v ELSE buf[i]]

\* _generate_huffman writing '0' on the way to the right child as well: the
\* variant C3_PrefixFree has to tell from the code
RECURSIVE generate_huffman_rec_same_char(_, _, _, _, _)
generate_huffman_rec_same_char(mi, h, node, code_buffer, depth) ==
  IF node = NULL THEN [mi |-> mi, h |-> h]
  ELSE
    LET code == Str(SubSeq(code_buffer, 1, depth))
        h1   == [h EXCEPT ![node].code = code]
        hit  == {i \in 1..mi.length : mi.chars[i].c = h[node].c}
        mi1  == IF h[node].left = NULL /\ h[node].right = NULL /\ hit # {}
                THEN [mi EXCEPT !.chars[First(hit)].code = code]
                ELSE mi
        l    == IF h[node].left # NULL
                THEN generate_huffman_rec_same_char(mi1, h1, h[node].left,
                       Store(Store(code_buffer, depth, CHAR_0), depth + 1, 0),
                       depth + 1)
                ELSE [mi |-> mi1, h |-> h1]
    IN  IF h[node].right # NULL
        THEN generate_huffman_rec_same_char(l.mi, l.h, h[node].right,
               Store(Store(code_buffer, depth, CHAR_0), depth + 1, 0),
               depth + 1)
        ELSE l

RECURSIVE generate_huffman_rec(_, _, _, _, _)
generate_huffman_rec(mi, h, node, code_buffer, depth) ==
  IF node = NULL THEN [mi |-> mi, h |-> h]
  ELSE
    LET code == Str(SubSeq(code_buffer, 1, depth))
        h1   == [h EXCEPT ![node].code = code]
        hit  == {i \in 1..mi.length : mi.chars[i].c = h[node].c}
        mi1  == IF h[node].left = NULL /\ h[node].right = NULL /\ hit # {}
                THEN [mi EXCEPT !.chars[First(hit)].code = code]
                ELSE mi
        l    == IF h[node].left # NULL
                THEN generate_huffman_rec(mi1, h1, h[node].left,
                       Store(Store(code_buffer, depth, CHAR_0), depth + 1, 0),
                       depth + 1)
                ELSE [mi |-> mi1, h |-> h1]
    IN  IF h[node].right # NULL
        THEN generate_huffman_rec(l.mi, l.h, h[node].right,
               Store(Store(code_buffer, depth, CHAR_1), depth + 1, 0),
               depth + 1)
        ELSE l

generate_huffman(mi, h, r) ==
  generate_huffman_rec(mi, h, r, [k \in 1..(mi.length + 1) |-> 0], 0)

GenerateHuffman ==
  /\ pc = "tree_done"
  /\ LET res == generate_huffman(message_info, heap, root)
     IN  /\ message_info' = res.mi
         /\ heap' = res.h
  /\ pc' = "coded"
  /\ UNCHANGED << charSigned, qsortStable, message, nodes, current_nb_nodes, root,
                  enc_input, encoded_message, enc_writes, dec_input,
                  decoded_message >>

(* -------------------------- huffman_encode ---------------------------- *)

\* the loop over k: the characters of one code are appended
RECURSIVE encode_code(_, _, _)
encode_code(st, code, k) ==
  IF k > Len(code) THEN st
  ELSE LET capacity == IF st.current_idx >= st.capacity
                       THEN (2 * st.capacity) % SIZE_MOD
                       ELSE st.capacity
       IN  encode_code([st EXCEPT
                          !.capacity = capacity,
                          !.buf = Append(@, code[k]),
                          !.writes = Append(@, [idx |-> st.current_idx,
                                                capacity |-> capacity]),
                          !.current_idx = @ + 1],
                       code, k + 1)

\* the loop over i: a character without an entry is passed over, and the
\* code of the first entry that matches is read through its pointer
RECURSIVE encode_chars(_, _, _, _)
encode_chars(st, m, mi, i) ==
  IF i > Len(m) THEN st
  ELSE LET hit == {j \in 1..mi.length : mi.chars[j].c = CharAt(m, i)}
       IN  IF hit = {} THEN encode_chars(st, m, mi, i + 1)
           ELSE IF mi.chars[First(hit)].code.null
           THEN [st EXCEPT !.segv = TRUE]
           ELSE encode_chars(encode_code(st, mi.chars[First(hit)].code.s, 1),
                             m, mi, i + 1)

huffman_encode(m, mi) ==
  LET st == encode_chars([capacity    |-> (Len(m) + 1) % SIZE_MOD,
                          buf         |-> << >>,
                          writes      |-> << >>,
                          current_idx |-> 0,
                          segv        |-> FALSE], m, mi, 1)
  IN  IF st.segv THEN st
      ELSE [st EXCEPT !.writes = Append(@, [idx |-> st.current_idx,
                                            capacity |-> st.capacity])]

\* messages handed to huffman_encode with a table built from another message
OtherMessages == {<< b >> : b \in Symbols}

\* a write past the end of the buffer is undefined: the run goes on as if
\* nothing happened, or the allocator aborts it
Encode ==
  /\ pc = "coded"
  /\ \E m \in {message} \cup OtherMessages :
       LET st == huffman_encode(m, message_info)
       IN  /\ enc_input' = m
           /\ enc_writes' = st.writes
           /\ IF st.segv
              THEN /\ pc' = "segv"
                   /\ UNCHANGED encoded_message
              ELSE /\ encoded_message' = Str(st.buf)
                   /\ \/ pc' = "encoded"
                      \/ /\ \E w \in 1..Len(st.writes) :
                              st.writes[w].idx >= st.writes[w].capacity
                         /\ pc' = "abort"
  /\ UNCHANGED << charSigned, qsortStable, message, message_info, heap, nodes,
                  current_nb_nodes, root, dec_input, decoded_message >>

(* -------------------------- huffman_decode ---------------------------- *)

RECURSIVE decode_bits(_, _, _, _, _)
decode_bits(st, e, h, r, i) ==
  IF i > Len(e) THEN st
  ELSE IF st.current_node = NULL THEN [st EXCEPT !.segv = TRUE]
  ELSE LET next == IF e[i] = CHAR_0 THEN h[st.current_node].left
                                    ELSE h[st.current_node].right
       IN  IF next = NULL THEN [st EXCEPT !.segv = TRUE]
           ELSE IF h[next].left = NULL /\ h[next].right = NULL
           THEN decode_bits([st EXCEPT
                               !.capacity = IF st.current_idx >= st.capacity
                                            THEN (2 * st.capacity) % SIZE_MOD
                                            ELSE st.capacity,
                               !.buf = Append(@, ToChar(h[next].c)),
                               !.current_idx = @ + 1,
                               !.current_node = r],
                            e, h, r, i + 1)
           ELSE decode_bits([st EXCEPT !.current_node = next], e, h, r, i + 1)

\* huffman_decode without the test of the cursor after the loop: the variant
\* C2_TruncationDetected has to tell from the code
huffman_decode_unchecked(e, h, r) ==
  LET st == decode_bits([capacity     |-> (Len(e) + 1) % SIZE_MOD,
                         buf          |-> << >>,
                         current_idx  |-> 0,
                         current_node |-> r,
                         segv         |-> FALSE], e, h, r, 1)
  IN  [segv |-> st.segv, ret |-> Str(st.buf)]

\* the result: [segv, ret]
huffman_decode(e, h, r) ==
  LET st == decode_bits([capacity     |-> (Len(e) + 1) % SIZE_MOD,
                         buf          |-> << >>,
                         current_idx  |-> 0,
                         current_node |-> r,
                         segv         |-> FALSE], e, h, r, 1)
  IN  [segv |-> st.segv,
       ret  |-> IF st.current_node # r THEN NullStr ELSE Str(st.buf)]

\* main hands the whole encoded message to huffman_decode; a truncated copy
\* of the encoding of the message itself is handed over as well
Decode ==
  /\ pc = "encoded"
  /\ \E n \in 0..Len(encoded_message.s) :
       /\ n = Len(encoded_message.s) \/ enc_input = message
       /\ dec_input' = SubSeq(encoded_message.s, 1, n)
       /\ LET res == huffman_decode(dec_input', heap, root)
          IN  IF res.segv
              THEN /\ pc' = "segv"
                   /\ UNCHANGED decoded_message
              ELSE /\ pc' = "decoded"
                   /\ decoded_message' = res.ret
  /\ UNCHANGED << charSigned, qsortStable, message, message_info, heap, nodes,
                  current_nb_nodes, root, enc_input, encoded_message, enc_writes >>

(* ------------------------------- Next --------------------------------- *)

Next ==
  \/ CreateMessage
  \/ GenerateTreeLeaves
  \/ GenerateTreeMerge
  \/ GenerateTreeReturn
  \/ GenerateHuffman
  \/ Encode
  \/ Decode

Spec == Init /\ [][Next]_vars

(* ===================== properties of the program ====================== *)

\* the stages of main at which the tree, the table and the strings exist
TreeBuilt == pc \in {"tree_done", "coded", "encoded", "decoded"}

TableBuilt == pc \in {"coded", "encoded", "decoded"}

IsLeaf(n) == heap[n].left = NULL /\ heap[n].right = NULL

\* the nodes of the tree below and including n
RECURSIVE Subtree(_)
Subtree(n) ==
  IF n = NULL THEN {}
  ELSE {n} \cup Subtree(heap[n].left) \cup Subtree(heap[n].right)

\* the leaves below n, each with the '0'/'1' path that leads to it from n
RECURSIVE LeafPaths(_)
LeafPaths(n) ==
  IF n = NULL THEN {}
  ELSE IF IsLeaf(n) THEN {[leaf |-> n, path |-> << >>]}
  ELSE {[leaf |-> lp.leaf, path |-> << CHAR_0 >> \o lp.path] :
           lp \in LeafPaths(heap[n].left)}
       \cup
       {[leaf |-> lp.leaf, path |-> << CHAR_1 >> \o lp.path] :
           lp \in LeafPaths(heap[n].right)}

IsPrefix(a, b) == Len(a) <= Len(b) /\ SubSeq(b, 1, Len(a)) = a

Assigned(i) == ~message_info.chars[i].code.null

CodeOfEntry(i) == message_info.chars[i].code.s

\* the byte values that occur in the message
BytesOf(m) == {m[i] : i \in 1..Len(m)}

Count(m, b) == Cardinality({i \in 1..Len(m) : m[i] = b})

\* the table entry of the i-th character of the encoder's input
EntryOf(i) ==
  CHOOSE j \in 1..message_info.length :
    message_info.chars[j].c = CharAt(enc_input, i)

\* number of code characters the first k characters of the encoder's input
\* contribute to the encoded message
RECURSIVE BitsOfFirst(_)
BitsOfFirst(k) ==
  IF k = 0 THEN 0 ELSE BitsOfFirst(k - 1) + Len(CodeOfEntry(EntryOf(k)))

\* main's own call sequence: the message is encoded with its own table and
\* the whole encoded message is decoded
OwnRun ==
  /\ pc = "decoded"
  /\ enc_input = message
  /\ dec_input = encoded_message.s

\* C1: a non-empty message that went through create_message, generate_tree,
\* generate_huffman, huffman_encode and huffman_decode comes back unchanged.
C1_RoundTrip ==
  (OwnRun /\ message # << >>)
    => (~decoded_message.null /\ decoded_message.s = CharsOf(message))

\* C2: with a tree of two leaves or more, decoding a strict non-empty prefix
\* of the encoded message that stops inside a code returns NULL and no
\* string.
C2_TruncationDetected ==
  ( /\ pc = "decoded"
    /\ enc_input = message
    /\ ~IsLeaf(root)
    /\ Len(dec_input) \in 1..(Len(encoded_message.s) - 1)
    /\ Len(dec_input) \notin {BitsOfFirst(k) : k \in 0..Len(enc_input)} )
    => decoded_message = NullStr

C2_Witness ==
  /\ pc = "decoded"
  /\ enc_input = message
  /\ ~IsLeaf(root)
  /\ message_info.length >= 3
  /\ Len(dec_input) \in 1..(Len(encoded_message.s) - 1)
  /\ Len(dec_input) \notin {BitsOfFirst(k) : k \in 0..Len(enc_input)}
  /\ Len(dec_input) > BitsOfFirst(1)
  /\ decoded_message.null

\* C3: once the table is built, no code assigned to a symbol is a prefix of
\* the code assigned to another symbol; with two symbols or more no assigned
\* code is empty.
C3_PrefixFree ==
  TableBuilt =>
    \A i, j \in 1..message_info.length :
      (i # j /\ Assigned(i) /\ Assigned(j))
        => /\ ~IsPrefix(CodeOfEntry(i), CodeOfEntry(j))
           /\ CodeOfEntry(i) # << >>

C3_Witness ==
  /\ pc = "coded"
  /\ message_info.length >= 4
  /\ \A i \in 1..message_info.length : Assigned(i)
  /\ \E i, j \in 1..message_info.length :
       Len(CodeOfEntry(i)) < Len(CodeOfEntry(j))

\* C4 as claimed: the message of main has 60 symbols and, with equal
\* frequencies kept in array order by the sort, encodes to the reference
\* bit-string of 156 bits, which decodes to the message.
C4_MainScenarioAsClaimed ==
  (OwnRun /\ message = MainMessage /\ qsortStable)
    => /\ Len(message) = 60
       /\ encoded_message.s = encoded_message_ref
       /\ Len(encoded_message.s) = 156
       /\ decoded_message = Str(CharsOf(message))

\* C4 amended: the message of main has 59 symbols and, with equal
\* frequencies kept in array order by the sort, encodes to the reference
\* bit-string of 150 bits, which decodes to the message.
C4_MainScenario ==
  (OwnRun /\ message = MainMessage /\ qsortStable)
    => /\ Len(message) = 59
       /\ encoded_message.s = encoded_message_ref
       /\ Len(encoded_message.s) = 150
       /\ decoded_message = Str(CharsOf(message))

C4_Witness ==
  /\ OwnRun
  /\ message = MainMessage
  /\ qsortStable
  /\ Len(encoded_message.s) = 150
  /\ ~decoded_message.null

\* C5: for the empty message generate_tree reports an EmptyAlphabet error to
\* its caller.
C5_EmptyAlphabetSignalled ==
  (message_info.length = 0 /\ pc \notin {"start", "created", "exit_failed_allocation"})
    => pc = "EmptyAlphabet"

\* C6: huffman_encode does not return an encoded string for a message that
\* holds a symbol without an entry in the table.
C6_UnknownSymbolSignalled ==
  ( /\ pc = "encoded"
    /\ \E i \in 1..Len(enc_input) :
         \A j \in 1..message_info.length :
           message_info.chars[j].c # CharAt(enc_input, i) )
    => encoded_message.null

\* C7: in the table, a symbol of strictly higher frequency has a code no
\* longer than that of a symbol of strictly lower frequency.
C7_CodeLengthOrdering ==
  TableBuilt =>
    \A i, j \in 1..message_info.length :
      ( /\ Assigned(i)
        /\ Assigned(j)
        /\ message_info.chars[i].freq > message_info.chars[j].freq )
        => Len(CodeOfEntry(i)) <= Len(CodeOfEntry(j))

C7_Witness ==
  /\ pc = "coded"
  /\ \E i, j \in 1..message_info.length :
       /\ Assigned(i)
       /\ Assigned(j)
       /\ message_info.chars[i].freq > message_info.chars[j].freq
       /\ Len(CodeOfEntry(i)) < Len(CodeOfEntry(j))

\* C8: in the tree generate_tree returned, an internal node has two children
\* and the sum of their frequencies, a leaf has the number of occurrences of
\* its symbol in the message, and the root has the length of the message.
C8_TreeWeights ==
  TreeBuilt =>
    /\ \A n \in Subtree(root) :
         IF IsLeaf(n)
         THEN /\ heap[n].c \in BytesOf(message)
              /\ heap[n].freq = Count(message, heap[n].c)
         ELSE /\ heap[n].left # NULL
              /\ heap[n].right # NULL
              /\ heap[n].freq = heap[heap[n].left].freq + heap[heap[n].right].freq
    /\ heap[root].freq = Len(message)

C8_Witness ==
  /\ pc = "tree_done"
  /\ Cardinality({n \in Subtree(root) : ~IsLeaf(n)}) >= 3
  /\ heap[root].freq = Len(message)
  /\ \E n \in Subtree(root) : IsLeaf(n) /\ heap[n].freq >= 2

\* C9: once the table is built it has one entry for each distinct byte of
\* the message, and each entry's code is assigned and is the '0'/'1' path
\* from the root to the leaf of that byte.
C9_TableComplete ==
  TableBuilt =>
    /\ message_info.length = Cardinality(BytesOf(message))
    /\ \A b \in BytesOf(message) :
         \E i \in 1..message_info.length :
           /\ ToUChar(message_info.chars[i].c) = b
           /\ Assigned(i)
           /\ \E lp \in LeafPaths(root) :
                /\ heap[lp.leaf].c = b
                /\ lp.path = CodeOfEntry(i)

\* C10: every write of huffman_encode into encoded_message, the terminator
\* included, is at an index below the capacity of the buffer at that moment.
C10_EncoderWritesInBounds ==
  (pc \in {"encoded", "abort", "decoded"} /\ enc_input = message)
    => \A w \in 1..Len(enc_writes) : enc_writes[w].idx < enc_writes[w].capacity


=============================================================================
